---- MODULE Spec2Model ----
(***************************************************************************)
(* Model of the erika plugin (src/src/main.ts): the label computation      *)
(* calcDisplayText and the display synchronisation of ErikaPlugin and      *)
(* SettingTab against the host (workspace panes, metadata cache, data      *)
(* store, DOM attributes of the file explorer).                            *)
(*                                                                         *)
(* JavaScript strings are sequences of one-character strings, so that      *)
(* concatenation, length and join are computed and not assumed.  Every     *)
(* other JavaScript value is a record whose single field names its type.   *)
(***************************************************************************)
EXTENDS Integers, Sequences, FiniteSets

(***************************************************************************)
(* Bounds of the model.                                                    *)
(***************************************************************************)
MaxList == 2
MaxFail == 2
MaxPanes == 2

(***************************************************************************)
(* JavaScript values found in a frontmatter.                               *)
(***************************************************************************)
Undefined == [undefined |-> TRUE]
StrV(s) == [str |-> s]
NumV(n) == [num |-> n]
BoolV(b) == [bool |-> b]
ArrV(a) == [arr |-> a]

IsStr(v) == "str" \in DOMAIN v
IsNum(v) == "num" \in DOMAIN v
IsBool(v) == "bool" \in DOMAIN v
IsArr(v) == "arr" \in DOMAIN v

EmptyStr == << >>

\* ToBoolean: '', 0, false, undefined are falsy; every array is truthy.
Truthy(v) ==
  CASE IsStr(v) -> v.str # EmptyStr
    [] IsNum(v) -> v.num # 0
    [] IsBool(v) -> v.bool
    [] IsArr(v) -> TRUE
    [] OTHER -> FALSE

\* a || b
Or(a, b) == IF Truthy(a) THEN a ELSE b

\* i.length > 0: a number or a boolean has no length (undefined > 0 is false).
LengthPositive(v) ==
  CASE IsStr(v) -> Len(v.str) > 0
    [] IsArr(v) -> Len(v.arr) > 0
    [] OTHER -> FALSE

Digits == <<"0", "1", "2", "3", "4", "5", "6", "7", "8", "9">>

\* Number.prototype.toString of a natural number.
RECURSIVE NumToString(_)
NumToString(n) ==
  IF n < 10 THEN <<Digits[n + 1]>>
  ELSE NumToString(n \div 10) \o <<Digits[(n % 10) + 1]>>

\* Concatenation of strings with a separator string.
RECURSIVE ConcatWith(_, _)
ConcatWith(strs, sep) ==
  IF strs = << >> THEN EmptyStr
  ELSE IF Len(strs) = 1 THEN strs[1]
  ELSE strs[1] \o sep \o ConcatWith(Tail(strs), sep)

\* String(v): the string form of a value (an array joins its strings by ',').
StringOf(v) ==
  CASE IsStr(v) -> v.str
    [] IsNum(v) -> NumToString(v.num)
    [] IsBool(v) -> IF v.bool THEN <<"t", "r", "u", "e">> ELSE <<"f", "a", "l", "s", "e">>
    [] IsArr(v) -> ConcatWith(v.arr, <<",">>)
    [] OTHER -> <<"u", "n", "d", "e", "f", "i", "n", "e", "d">>

\* Array.prototype.join over values: each element by its string form.
ArrayJoin(vals, sep) == ConcatWith([i \in 1..Len(vals) |-> StringOf(vals[i])], sep)

\* Array.prototype.filter(i => i.length > 0)
FilterLength(vals) == SelectSeq(vals, LengthPositive)

(***************************************************************************)
(* moment(value).format(format)                                            *)
(***************************************************************************)
IsDigit(c) == \E i \in 1..10 : Digits[i] = c

InvalidDate == [valid |-> FALSE]

\* moment(v): an ISO date string YYYY-MM-DD parses to that day; a number is
\* a count of milliseconds since the epoch (the model has only small ones,
\* all on 1970-01-01); anything else is an invalid date.
MomentParse(v) ==
  CASE IsStr(v) ->
         IF /\ Len(v.str) = 10
            /\ v.str[5] = "-"
            /\ v.str[8] = "-"
            /\ \A i \in {1, 2, 3, 4, 6, 7, 9, 10} : IsDigit(v.str[i])
         THEN [valid |-> TRUE, y |-> SubSeq(v.str, 1, 4), m |-> SubSeq(v.str, 6, 7),
               d |-> SubSeq(v.str, 9, 10)]
         ELSE InvalidDate
    [] IsNum(v) ->
         [valid |-> TRUE, y |-> <<"1", "9", "7", "0">>, m |-> <<"0", "1">>, d |-> <<"0", "1">>]
    [] OTHER -> InvalidDate

HasPrefix(s, p) == Len(s) >= Len(p) /\ SubSeq(s, 1, Len(p)) = p

\* The tokens of a format pattern, replaced left to right (time of day is
\* midnight, the zone is UTC).
RECURSIVE FormatTokens(_, _)
FormatTokens(p, date) ==
  IF p = << >> THEN EmptyStr
  ELSE IF HasPrefix(p, <<"Y", "Y", "Y", "Y">>) THEN date.y \o FormatTokens(SubSeq(p, 5, Len(p)), date)
  ELSE IF HasPrefix(p, <<"M", "M">>) THEN date.m \o FormatTokens(SubSeq(p, 3, Len(p)), date)
  ELSE IF HasPrefix(p, <<"D", "D">>) THEN date.d \o FormatTokens(SubSeq(p, 3, Len(p)), date)
  ELSE IF HasPrefix(p, <<"H", "H">>) THEN <<"0", "0">> \o FormatTokens(SubSeq(p, 3, Len(p)), date)
  ELSE IF HasPrefix(p, <<"m", "m">>) THEN <<"0", "0">> \o FormatTokens(SubSeq(p, 3, Len(p)), date)
  ELSE IF HasPrefix(p, <<"s", "s">>) THEN <<"0", "0">> \o FormatTokens(SubSeq(p, 3, Len(p)), date)
  ELSE IF HasPrefix(p, <<"Z">>) THEN <<"+", "0", "0", ":", "0", "0">> \o FormatTokens(Tail(p), date)
  ELSE <<Head(p)>> \o FormatTokens(Tail(p), date)

DefaultFormat ==
  <<"Y", "Y", "Y", "Y", "-", "M", "M", "-", "D", "D", "T", "H", "H", ":", "m", "m", ":", "s", "s", "Z">>

InvalidDateText == <<"I", "n", "v", "a", "l", "i", "d", " ", "d", "a", "t", "e">>

\* An absent or empty format is the default pattern; an invalid date renders
\* as the locale's invalid-date text whatever the pattern.
MomentFormat(v, format) ==
  LET date == MomentParse(v)
      p == IF Truthy(format) THEN format.str ELSE DefaultFormat
  IN IF date.valid THEN FormatTokens(p, date) ELSE InvalidDateText

(***************************************************************************)
(* calcDisplayText                                                         *)
(***************************************************************************)
NoFrontmatter == [present |-> FALSE]
Frontmatter(m) == [present |-> TRUE, map |-> m]

\* frontmatter[key]
Lookup(m, key) == IF key \in DOMAIN m THEN m[key] ELSE Undefined

\* The map callback with the date branch testing that the key is there
\* instead of the truth of its value.
MapItem_DateIfPresent(item, m) ==
  CASE item.type = "raw" -> Or(Lookup(m, item.key), StrV(EmptyStr))
    [] item.type = "date" ->
         IF item.key \in DOMAIN m
         THEN StrV(MomentFormat(Lookup(m, item.key), item.format))
         ELSE StrV(EmptyStr)
    [] OTHER -> StrV(EmptyStr)

\* The map callback with a default branch that falls back to the raw value.
MapItem_DefaultRaw(item, m) ==
  CASE item.type = "date" ->
         IF Truthy(Lookup(m, item.key))
         THEN StrV(MomentFormat(Lookup(m, item.key), item.format))
         ELSE StrV(EmptyStr)
    [] OTHER -> Or(Lookup(m, item.key), StrV(EmptyStr))

\* The callback of list.map: one value per list item.
MapItem(item, m) ==
  CASE item.type = "raw" -> Or(Lookup(m, item.key), StrV(EmptyStr))
    [] item.type = "date" ->
         IF Truthy(Lookup(m, item.key))
         THEN StrV(MomentFormat(Lookup(m, item.key), item.format))
         ELSE StrV(EmptyStr)
    [] OTHER -> StrV(EmptyStr)

calcDisplayText(settings_, fm) ==
  IF ~fm.present THEN EmptyStr
  ELSE ArrayJoin(
         FilterLength([i \in 1..Len(settings_.list) |-> MapItem(settings_.list[i], fm.map)]),
         <<" ">> \o settings_.separator \o <<" ">>)

(***************************************************************************)
(* Program constants and the small sets the inputs are drawn from.         *)
(***************************************************************************)
DEFAULT_SETTINGS ==
  [list |-> <<[key |-> "", type |-> "raw", format |-> Undefined]>>, separator |-> <<"|">>]

FrontmatterType_TYPES == {"raw", "date"}

Files == {"f1", "f2"}
Folders == {"d"}
Paths == Files \cup Folders
\* The order in which for-in visits the keys of fileItems.
PathOrder == <<"d", "f1", "f2">>

Null == [null |-> TRUE]

\* What the text fields and the dropdown of the settings tab can deliver.
EditorSeparators == {<<"|">>, <<"-">>}
EditorKeys == {"", "a"}
EditorFormats == {StrV(<<"Y", "Y", "Y", "Y">>)}

\* Frontmatters the metadata cache takes for a file while the plugin runs.
HostSnapshots == {NoFrontmatter, Frontmatter([a |-> StrV(<<"X">>)])}

\* What data.json can hold when the plugin loads.
HostData ==
  {Null,
   [list |-> <<[key |-> "a", type |-> "raw", format |-> Undefined]>>, separator |-> <<"-">>],
   [separator |-> <<"-">>]}

VARIABLES
  pc,            \* position of onload: "loading" until loadSettings has resolved
  settings,      \* this.settings
  fileExplorer,  \* this.fileExplorer: 0 is undefined, else the index of its pane
  stored,        \* the host's data store (loadData / saveData)
  layoutReady,   \* whether the workspace layout is ready
  readyQueue,    \* callbacks queued by onLayoutReady while the layout is not ready
  timers,        \* pending setTimeout callbacks
  panes,         \* the workspace leaves, in iteration order
  fileItems,     \* the keys of the explorer view's fileItems
  frontmatter,   \* the metadata cache: the frontmatter of every file
  attr,          \* the data-erika-value attribute of every item's selfEl
  failures,      \* rejected acquisitions so far
  scheduled,     \* setTimeout calls so far
  initRefreshes, \* updateFileExplorer calls made by init's callback so far
  handleWrites,  \* assignments to this.fileExplorer so far
  last,          \* the handler that ran last: its kind, file, outcome and effects
  streak         \* updateFileExplorer runs in a row on an unchanged host and settings (up to 2)

vars ==
  <<pc, settings, fileExplorer, stored, layoutReady, readyQueue, timers, panes, fileItems,
    frontmatter, attr, failures, scheduled, initRefreshes, handleWrites, last, streak>>

NoAttr == [set |-> FALSE, text |-> EmptyStr]
SetAttr(t) == [set |-> TRUE, text |-> t]

SetAttributeOp(p) == [op |-> "setAttribute", path |-> p]
SaveDataOp == [op |-> "saveData", path |-> ""]

Handler(kind, file, threw, log) == [kind |-> kind, file |-> file, threw |-> threw, log |-> log]

(***************************************************************************)
(* ErikaPlugin                                                             *)
(***************************************************************************)
\* Object.assign({}, DEFAULT_SETTINGS, data)
loadSettings(data) ==
  IF data = Null THEN DEFAULT_SETTINGS
  ELSE [k \in DOMAIN DEFAULT_SETTINGS |-> IF k \in DOMAIN data THEN data[k] ELSE DEFAULT_SETTINGS[k]]

\* updateFileDisplay appending to the attribute instead of replacing it.
updateFileDisplay_Appends(fe, items, st, fms, at, file) ==
  IF fe = 0 THEN [attr |-> at, threw |-> FALSE, log |-> << >>]
  ELSE IF file \notin items THEN [attr |-> at, threw |-> TRUE, log |-> << >>]
  ELSE [attr |-> [at EXCEPT ![file] = SetAttr(at[file].text \o calcDisplayText(st, fms[file]))],
        threw |-> FALSE,
        log |-> <<SetAttributeOp(file)>>]

\* updateFileDisplay without its first guard, writing through the host's
\* explorer whether or not init has acquired it.
updateFileDisplay_NoGuard(fe, items, st, fms, at, file) ==
  IF file \notin items THEN [attr |-> at, threw |-> TRUE, log |-> << >>]
  ELSE [attr |-> [at EXCEPT ![file] = SetAttr(calcDisplayText(st, fms[file]))],
        threw |-> FALSE,
        log |-> <<SetAttributeOp(file)>>]

\* updateFileDisplay returning early, without a write, when the metadata
\* cache has no frontmatter for the file.
updateFileDisplay_SkipsAbsent(fe, items, st, fms, at, file) ==
  IF fe = 0 THEN [attr |-> at, threw |-> FALSE, log |-> << >>]
  ELSE IF file \notin items THEN [attr |-> at, threw |-> TRUE, log |-> << >>]
  ELSE IF ~fms[file].present THEN [attr |-> at, threw |-> FALSE, log |-> << >>]
  ELSE [attr |-> [at EXCEPT ![file] = SetAttr(calcDisplayText(st, fms[file]))],
        threw |-> FALSE,
        log |-> <<SetAttributeOp(file)>>]

\* One call: the attributes afterwards, whether it threw, the writes it made.
\* Destructuring fileItems[file.path] of an unknown path throws a TypeError.
updateFileDisplay(fe, items, st, fms, at, file) ==
  IF fe = 0 THEN [attr |-> at, threw |-> FALSE, log |-> << >>]
  ELSE IF file \notin items THEN [attr |-> at, threw |-> TRUE, log |-> << >>]
  ELSE [attr |-> [at EXCEPT ![file] = SetAttr(calcDisplayText(st, fms[file]))],
        threw |-> FALSE,
        log |-> <<SetAttributeOp(file)>>]

\* The for-in loop without its `file instanceof TFile` test: a folder gets
\* the label of a file the metadata cache knows nothing of.
RECURSIVE UpdateLoop_EveryEntry(_, _, _, _, _, _)
UpdateLoop_EveryEntry(todo, fe, items, st, fms, acc) ==
  IF todo = << >> \/ acc.threw THEN acc
  ELSE IF Head(todo) \in items /\ Head(todo) \in Files
  THEN LET r == updateFileDisplay(fe, items, st, fms, acc.attr, Head(todo))
       IN UpdateLoop_EveryEntry(Tail(todo), fe, items, st, fms,
                                [attr |-> r.attr, threw |-> r.threw, log |-> acc.log \o r.log])
  ELSE IF Head(todo) \in items /\ fe # 0
  THEN UpdateLoop_EveryEntry(Tail(todo), fe, items, st, fms,
                             [attr |-> [acc.attr EXCEPT ![Head(todo)] = SetAttr(calcDisplayText(st, NoFrontmatter))],
                              threw |-> FALSE,
                              log |-> Append(acc.log, SetAttributeOp(Head(todo)))])
  ELSE UpdateLoop_EveryEntry(Tail(todo), fe, items, st, fms, acc)

\* The for-in loop of updateFileExplorer over the paths still to visit.
RECURSIVE UpdateLoop(_, _, _, _, _, _)
UpdateLoop(todo, fe, items, st, fms, acc) ==
  IF todo = << >> \/ acc.threw THEN acc
  ELSE IF Head(todo) \in items /\ Head(todo) \in Files
  THEN LET r == updateFileDisplay(fe, items, st, fms, acc.attr, Head(todo))
       IN UpdateLoop(Tail(todo), fe, items, st, fms,
                     [attr |-> r.attr, threw |-> r.threw, log |-> acc.log \o r.log])
  ELSE UpdateLoop(Tail(todo), fe, items, st, fms, acc)

updateFileExplorer(fe, items, st, fms, at) ==
  IF fe = 0 THEN [attr |-> at, threw |-> FALSE, log |-> << >>]
  ELSE UpdateLoop(PathOrder, fe, items, st, fms, [attr |-> at, threw |-> FALSE, log |-> << >>])

\* saveAndUpdateDisplay issuing saveData before it refreshes.
saveAndUpdateDisplay_SaveFirst(fe, items, st, fms, at, sto) ==
  LET r == updateFileExplorer(fe, items, st, fms, at)
  IN [attr |-> r.attr, stored |-> st, threw |-> r.threw, log |-> <<SaveDataOp>> \o r.log]

\* saveAndUpdateDisplay doing what saveSettings does: no refresh.
saveAndUpdateDisplay_SaveOnly(fe, items, st, fms, at, sto) ==
  [attr |-> at, stored |-> st, threw |-> FALSE, log |-> <<SaveDataOp>>]

\* updateFileExplorer(), then saveData(settings) is issued.
saveAndUpdateDisplay(fe, items, st, fms, at, sto) ==
  LET r == updateFileExplorer(fe, items, st, fms, at)
  IN IF r.threw THEN [attr |-> r.attr, stored |-> sto, threw |-> TRUE, log |-> r.log]
     ELSE [attr |-> r.attr, stored |-> st, threw |-> FALSE, log |-> r.log \o <<SaveDataOp>>]

\* iterateAllLeaves without the `if (foundLeaf) return`: every leaf whose view
\* has fileItems replaces the one found before it.
RECURSIVE IterateLeaves_KeepsLast(_, _, _)
IterateLeaves_KeepsLast(ps, i, foundLeaf) ==
  IF i > Len(ps) THEN foundLeaf
  ELSE IF ~ps[i].fileItems THEN IterateLeaves_KeepsLast(ps, i + 1, foundLeaf)
  ELSE IterateLeaves_KeepsLast(ps, i + 1, i)

\* iterateAllLeaves: the first leaf whose view has fileItems, 0 if none.
RECURSIVE IterateLeaves(_, _, _)
IterateLeaves(ps, i, foundLeaf) ==
  IF i > Len(ps) THEN foundLeaf
  ELSE IF foundLeaf # 0 THEN IterateLeaves(ps, i + 1, foundLeaf)
  ELSE IF ~ps[i].fileItems THEN IterateLeaves(ps, i + 1, foundLeaf)
  ELSE IterateLeaves(ps, i + 1, i)

getFileExplorerLeaf(ps) ==
  LET foundLeaf == IterateLeaves(ps, 1, 0)
  IN [resolved |-> foundLeaf, rejected |-> foundLeaf = 0]

\* init's callback with an empty catch block: a rejection schedules nothing.
initCallback_NoRetry(ps, fe, items, st, fms, at) ==
  LET p == getFileExplorerLeaf(ps)
      r == updateFileExplorer(p.resolved, items, st, fms, at)
  IN IF ~p.rejected
     THEN [fileExplorer |-> p.resolved, attr |-> r.attr, assigned |-> 1, refreshes |-> 1,
           timeouts |-> 0, rejected |-> 0, log |-> r.log]
     ELSE [fileExplorer |-> fe, attr |-> at, assigned |-> 0, refreshes |-> 0,
           timeouts |-> 0, rejected |-> 1, log |-> << >>]

\* init's callback with the setTimeout after the try statement: it is set on
\* success too.
initCallback_AlwaysRetry(ps, fe, items, st, fms, at) ==
  LET p == getFileExplorerLeaf(ps)
      r == updateFileExplorer(p.resolved, items, st, fms, at)
  IN IF ~p.rejected
     THEN [fileExplorer |-> p.resolved, attr |-> r.attr, assigned |-> 1, refreshes |-> 1,
           timeouts |-> 1, rejected |-> 0, log |-> r.log]
     ELSE [fileExplorer |-> fe, attr |-> at, assigned |-> 0, refreshes |-> 0,
           timeouts |-> 1, rejected |-> 1, log |-> << >>]

\* init's callback without its call of updateFileExplorer.
initCallback_NoRefresh(ps, fe, items, st, fms, at) ==
  LET p == getFileExplorerLeaf(ps)
  IN IF ~p.rejected
     THEN [fileExplorer |-> p.resolved, attr |-> at, assigned |-> 1, refreshes |-> 0,
           timeouts |-> 0, rejected |-> 0, log |-> << >>]
     ELSE [fileExplorer |-> fe, attr |-> at, assigned |-> 0, refreshes |-> 0,
           timeouts |-> 1, rejected |-> 1, log |-> << >>]

\* The callback init() hands to onLayoutReady: what it leaves behind.
initCallback(ps, fe, items, st, fms, at) ==
  LET p == getFileExplorerLeaf(ps)
      r == updateFileExplorer(p.resolved, items, st, fms, at)
  IN IF ~p.rejected /\ ~r.threw
     THEN [fileExplorer |-> p.resolved, attr |-> r.attr, assigned |-> 1, refreshes |-> 1,
           timeouts |-> 0, rejected |-> 0, log |-> r.log]
     ELSE IF ~p.rejected
     THEN [fileExplorer |-> p.resolved, attr |-> r.attr, assigned |-> 1, refreshes |-> 1,
           timeouts |-> 1, rejected |-> 0, log |-> r.log]
     ELSE [fileExplorer |-> fe, attr |-> at, assigned |-> 0, refreshes |-> 0,
           timeouts |-> 1, rejected |-> 1, log |-> << >>]

\* The "changed" callback leaving a label that is already there.
changedCallback_KeepsLabel(fe, items, st, fms, at, file) ==
  IF file \in items /\ at[file].set THEN [attr |-> at, threw |-> FALSE, log |-> << >>]
  ELSE updateFileDisplay(fe, items, st, fms, at, file)

\* The "changed" callback refreshing the whole explorer.
changedCallback_RefreshAll(fe, items, st, fms, at, file) ==
  updateFileExplorer(fe, items, st, fms, at)

\* The "changed" callback registered by onload.
changedCallback(fe, items, st, fms, at, file) == updateFileDisplay(fe, items, st, fms, at, file)

HasExplorer(ps) == \E i \in 1..Len(ps) : ps[i].fileItems

\* The host's explorer opens before a further acquisition would be rejected
\* once MaxFail acquisitions have been.
MayAttempt == HasExplorer(panes) \/ failures < MaxFail

\* init()'s callback runs as the handler `kind`.
RunInitCallback(kind, st) ==
  LET r == initCallback(panes, fileExplorer, fileItems, st, frontmatter, attr)
  IN /\ fileExplorer' = r.fileExplorer
     /\ attr' = r.attr
     /\ timers' = timers + r.timeouts
     /\ scheduled' = scheduled + r.timeouts
     /\ failures' = failures + r.rejected
     /\ initRefreshes' = initRefreshes + r.refreshes
     /\ handleWrites' = handleWrites + r.assigned
     /\ last' = Handler(kind, "", FALSE, r.log)
     /\ streak' = r.refreshes

Init ==
  /\ pc = "loading"
  /\ settings = Undefined
  /\ fileExplorer = 0
  /\ stored \in HostData
  /\ layoutReady = FALSE
  /\ readyQueue = 0
  /\ timers = 0
  /\ panes = << >>
  /\ fileItems = {"d", "f1"}
  /\ frontmatter = [f \in Files |-> NoFrontmatter]
  /\ attr = [p \in Paths |-> NoAttr]
  /\ failures = 0
  /\ scheduled = 0
  /\ initRefreshes = 0
  /\ handleWrites = 0
  /\ last = Handler("none", "", FALSE, << >>)
  /\ streak = 0

\* onload after loadSettings has resolved: the settings tab, init(), and the
\* registration of the "changed" callback.
Onload ==
  /\ pc = "loading"
  /\ pc' = "running"
  /\ settings' = loadSettings(stored)
  /\ IF layoutReady
     THEN /\ MayAttempt
          /\ RunInitCallback("onload", loadSettings(stored))
          /\ UNCHANGED readyQueue
     ELSE /\ readyQueue' = readyQueue + 1
          /\ last' = Handler("onload", "", FALSE, << >>)
          /\ UNCHANGED <<fileExplorer, attr, timers, scheduled, failures, initRefreshes,
                         handleWrites, streak>>
  /\ UNCHANGED <<stored, layoutReady, panes, fileItems, frontmatter>>

\* The workspace becomes ready and runs the callbacks queued for it.
LayoutReady ==
  /\ ~layoutReady
  /\ layoutReady' = TRUE
  /\ readyQueue' = 0
  /\ IF readyQueue > 0
     THEN /\ MayAttempt
          /\ RunInitCallback("layoutReady", settings)
     ELSE /\ last' = Handler("layoutReady", "", FALSE, << >>)
          /\ UNCHANGED <<fileExplorer, attr, timers, scheduled, failures, initRefreshes,
                         handleWrites, streak>>
  /\ UNCHANGED <<pc, settings, stored, panes, fileItems, frontmatter>>

\* A retry timer fires: init() again, the layout being ready by now.
RetryTimer ==
  /\ timers > 0
  /\ MayAttempt
  /\ LET r == initCallback(panes, fileExplorer, fileItems, settings, frontmatter, attr)
     IN /\ fileExplorer' = r.fileExplorer
        /\ attr' = r.attr
        /\ timers' = timers - 1 + r.timeouts
        /\ scheduled' = scheduled + r.timeouts
        /\ failures' = failures + r.rejected
        /\ initRefreshes' = initRefreshes + r.refreshes
        /\ handleWrites' = handleWrites + r.assigned
        /\ last' = Handler("timer", "", FALSE, r.log)
        /\ streak' = r.refreshes
  /\ UNCHANGED <<pc, settings, stored, layoutReady, readyQueue, panes, fileItems, frontmatter>>

\* The "changed" callback registered from the start of onload, before
\* loadSettings has resolved.
Registered_BeforeLoad == TRUE

\* onload has reached its registerEvent, which comes after loadSettings.
Registered == pc = "running"

\* The metadata cache takes a new frontmatter for a file and triggers
\* "changed"; the callback runs if onload has registered it.
MetadataChanged(f, snapshot) ==
  /\ frontmatter' = [frontmatter EXCEPT ![f] = snapshot]
  /\ IF Registered
     THEN LET r == changedCallback(fileExplorer, fileItems, settings, frontmatter', attr, f)
          IN /\ attr' = r.attr
             /\ last' = Handler("changed", f, r.threw, r.log)
     ELSE /\ attr' = attr
          /\ last' = Handler("unheard", f, FALSE, << >>)
  /\ streak' = 0
  /\ UNCHANGED <<pc, settings, fileExplorer, stored, layoutReady, readyQueue, timers, panes,
                 fileItems, failures, scheduled, initRefreshes, handleWrites>>

\* The host opens a pane, with or without a file-item index; it keeps room
\* for its file explorer.
HostOpenPane(hasItems) ==
  /\ Len(panes) < MaxPanes
  /\ hasItems \/ HasExplorer(panes) \/ Len(panes) + 1 < MaxPanes
  /\ panes' = Append(panes, [fileItems |-> hasItems])
  /\ last' = Handler("host", "", FALSE, << >>)
  /\ UNCHANGED streak
  /\ UNCHANGED <<pc, settings, fileExplorer, stored, layoutReady, readyQueue, timers, fileItems,
                 frontmatter, attr, failures, scheduled, initRefreshes, handleWrites>>

\* The explorer starts to show a path: a new item, its element without the
\* attribute.
HostTrack(p) ==
  /\ p \notin fileItems
  /\ fileItems' = fileItems \cup {p}
  /\ streak' = 0
  /\ attr' = [attr EXCEPT ![p] = NoAttr]
  /\ last' = Handler("host", "", FALSE, << >>)
  /\ UNCHANGED <<pc, settings, fileExplorer, stored, layoutReady, readyQueue, timers, panes,
                 frontmatter, failures, scheduled, initRefreshes, handleWrites>>

\* The explorer drops a path and its element.
HostUntrack(p) ==
  /\ p \in fileItems
  /\ fileItems' = fileItems \ {p}
  /\ streak' = 0
  /\ attr' = [attr EXCEPT ![p] = NoAttr]
  /\ last' = Handler("host", "", FALSE, << >>)
  /\ UNCHANGED <<pc, settings, fileExplorer, stored, layoutReady, readyQueue, timers, panes,
                 frontmatter, failures, scheduled, initRefreshes, handleWrites>>

(***************************************************************************)
(* SettingTab.display: the callbacks of its controls.  Each mutates        *)
(* this.plugin.settings and then calls saveAndUpdateDisplay.               *)
(***************************************************************************)
Edit(newSettings) ==
  /\ pc = "running"
  /\ settings' = newSettings
  /\ LET r == saveAndUpdateDisplay(fileExplorer, fileItems, newSettings, frontmatter, attr, stored)
     IN /\ attr' = r.attr
        /\ stored' = r.stored
        /\ last' = Handler("settings", "", r.threw, r.log)
  /\ streak' = IF fileExplorer = 0 THEN 0
               ELSE IF newSettings = settings /\ streak > 0 THEN 2
               ELSE 1
  /\ UNCHANGED <<pc, fileExplorer, layoutReady, readyQueue, timers, panes, fileItems,
                 frontmatter, failures, scheduled, initRefreshes, handleWrites>>

\* splice(i - 1, 1): the item before the one whose button was clicked goes.
RemoveAt_Before(list, i) == SubSeq(list, 1, i - 2) \o SubSeq(list, i, Len(list))

\* list.splice(i, 1), the items being numbered from 1 here.
RemoveAt(list, i) == SubSeq(list, 1, i - 1) \o SubSeq(list, i + 1, Len(list))

SetSeparator(value) ==
  /\ pc = "running"
  /\ Edit([settings EXCEPT !.separator = value])

\* The trash button exists for every item but the first.
RemoveItem(i) ==
  /\ pc = "running"
  /\ i \in 2..Len(settings.list)
  /\ Edit([settings EXCEPT !.list = RemoveAt(@, i)])

SetType(i, value) ==
  /\ pc = "running"
  /\ i \in 1..Len(settings.list)
  /\ Edit([settings EXCEPT !.list[i].type = value])

SetKey(i, value) ==
  /\ pc = "running"
  /\ i \in 1..Len(settings.list)
  /\ Edit([settings EXCEPT !.list[i].key = value])

\* The format field exists for the items of type date.
SetFormat(i, value) ==
  /\ pc = "running"
  /\ i \in 1..Len(settings.list)
  /\ settings.list[i].type = "date"
  /\ Edit([settings EXCEPT !.list[i].format = value])

AddItem ==
  /\ pc = "running"
  /\ Len(settings.list) < MaxList
  /\ Edit([settings EXCEPT
                    !.list = Append(@, [key |-> "", type |-> "raw", format |-> Undefined])])


\* The program from its load on: startup, acquisition, the metadata cache,
\* the explorer, and the two text fields of the settings tab that exist in
\* every configuration.
Next ==
  \/ Onload
  \/ LayoutReady
  \/ RetryTimer
  \/ \E f \in Files, s \in HostSnapshots : MetadataChanged(f, s)
  \/ \E b \in BOOLEAN : HostOpenPane(b)
  \/ \E p \in Files : HostTrack(p)
  \/ \E p \in Files : HostUntrack(p)
  \/ \E v \in EditorSeparators : SetSeparator(v)
  \/ \E k \in EditorKeys : SetKey(1, k)

Spec == Init /\ [][Next]_vars

\* Startup and acquisition alone, with the metadata cache at work.
AcquireNext ==
  \/ Onload
  \/ LayoutReady
  \/ RetryTimer
  \/ \E b \in BOOLEAN : HostOpenPane(b)
  \/ \E f \in Files, s \in HostSnapshots : MetadataChanged(f, s)

\* onload resumes, the layout becomes ready, a timer that was set fires and
\* the host opens its file explorer: none of them is postponed for ever.
FairSpec ==
  /\ Init
  /\ [][AcquireNext]_vars
  /\ WF_vars(Onload)
  /\ WF_vars(LayoutReady)
  /\ WF_vars(RetryTimer)
  /\ WF_vars(HostOpenPane(TRUE))

\* The plugin after a first acquisition that succeeded at once: the state
\* Spec reaches by Onload, HostOpenPane(TRUE), LayoutReady from no data.
EditorInit ==
  /\ pc = "running"
  /\ settings = DEFAULT_SETTINGS
  /\ fileExplorer = 1
  /\ stored = Null
  /\ layoutReady = TRUE
  /\ readyQueue = 0
  /\ timers = 0
  /\ panes = <<[fileItems |-> TRUE]>>
  /\ fileItems = {"d", "f1"}
  /\ frontmatter = [f \in Files |-> NoFrontmatter]
  /\ attr = [p \in Paths |-> IF p = "f1" THEN SetAttr(EmptyStr) ELSE NoAttr]
  /\ failures = 0
  /\ scheduled = 0
  /\ initRefreshes = 1
  /\ handleWrites = 1
  /\ last = Handler("layoutReady", "", FALSE, <<SetAttributeOp("f1")>>)
  /\ streak = 1

\* The settings tab in full, with the metadata cache at work and one file
\* that enters and leaves the explorer.
EditorNext ==
  \/ \E v \in EditorSeparators : SetSeparator(v)
  \/ \E i \in 1..MaxList : RemoveItem(i)
  \/ \E i \in 1..MaxList, t \in FrontmatterType_TYPES : SetType(i, t)
  \/ \E i \in 1..MaxList, k \in EditorKeys : SetKey(i, k)
  \/ \E i \in 1..MaxList, fmt \in EditorFormats : SetFormat(i, fmt)
  \/ AddItem
  \/ \E f \in Files, s \in HostSnapshots : MetadataChanged(f, s)
  \/ HostTrack("f2")
  \/ HostUntrack("f2")

EditorSpec == EditorInit /\ [][EditorNext]_vars

(***************************************************************************)
(* calcDisplayText over a wide range of settings and frontmatters: the     *)
(* plugin runs with the explorer acquired, the settings are what data.json *)
(* held, and the metadata cache delivers frontmatters for f1.              *)
(***************************************************************************)
CompileKeys == {"a", "b", ""}

\* Key a under every type, with and without a format; key b and the empty
\* key as raw items, the empty key as a date item too.
CompileItems ==
  {[key |-> "a", type |-> t, format |-> Undefined] : t \in {"raw", "date", "link"}}
    \cup {[key |-> "a", type |-> "date", format |-> StrV(<<"Y", "Y", "Y", "Y">>)]}
    \cup {[key |-> "b", type |-> "raw", format |-> Undefined]}
    \cup {[key |-> "", type |-> t, format |-> Undefined] : t \in {"raw", "date"}}

RECURSIVE SeqsUpTo(_, _)
SeqsUpTo(S, n) ==
  IF n = 0 THEN {<< >>}
  ELSE SeqsUpTo(S, n - 1) \cup {Append(q, x) : q \in {r \in SeqsUpTo(S, n - 1) : Len(r) = n - 1}, x \in S}

CompileSettings ==
  {[list |-> l, separator |-> sep] : l \in SeqsUpTo(CompileItems, MaxList), sep \in {<<"|">>, << >>}}

CompileValues ==
  {StrV(EmptyStr), StrV(<<"X">>), StrV(<<"2", "0", "2", "0", "-", "0", "3", "-", "0", "1">>),
   NumV(0), NumV(5), BoolV(TRUE), ArrV(<<EmptyStr>>), ArrV(<<<<"X">>, <<"Y">>>>)}

\* Key a takes every value, key b a string, the empty key one string.
CompileValuesOf(k) ==
  IF k = "a" THEN CompileValues
  ELSE IF k = "b" THEN {StrV(EmptyStr), StrV(<<"Y">>)}
  ELSE {StrV(<<"Z">>)}

\* No frontmatter, every frontmatter over the keys a and b, and two with an
\* entry under the empty key.
CompileSnapshots ==
  {NoFrontmatter}
    \cup {Frontmatter(m) :
            m \in UNION {{g \in [D -> CompileValues \cup {StrV(<<"Y">>), StrV(<<"Z">>)}] :
                             \A k \in D : g[k] \in CompileValuesOf(k)} :
                           D \in (SUBSET {"a", "b"}) \cup {{""}, {"", "a"}}}}

CompileInit ==
  /\ pc = "running"
  /\ settings \in CompileSettings
  /\ fileExplorer = 1
  /\ stored = Null
  /\ layoutReady = TRUE
  /\ readyQueue = 0
  /\ timers = 0
  /\ panes = <<[fileItems |-> TRUE]>>
  /\ fileItems = {"d", "f1"}
  /\ frontmatter = [f \in Files |-> NoFrontmatter]
  /\ attr = [p \in Paths |-> IF p = "f1" THEN SetAttr(EmptyStr) ELSE NoAttr]
  /\ failures = 0
  /\ scheduled = 0
  /\ initRefreshes = 1
  /\ handleWrites = 1
  /\ last = Handler("layoutReady", "", FALSE, <<SetAttributeOp("f1")>>)
  /\ streak = 1

CompileNext == \E s \in CompileSnapshots : MetadataChanged("f1", s)

CompileSpec == CompileInit /\ [][CompileNext]_vars

\* The explorers the plugin may find: f2 is in fileItems or it is not.
TrackedSets == {{"d", "f1"}, {"d", "f1", "f2"}}

\* The load as in Init, the explorer's fileItems being one of TrackedSets.
SyncInit ==
  /\ pc = "loading"
  /\ settings = Undefined
  /\ fileExplorer = 0
  /\ stored \in HostData
  /\ layoutReady = FALSE
  /\ readyQueue = 0
  /\ timers = 0
  /\ panes = << >>
  /\ fileItems \in TrackedSets
  /\ frontmatter = [f \in Files |-> NoFrontmatter]
  /\ attr = [p \in Paths |-> NoAttr]
  /\ failures = 0
  /\ scheduled = 0
  /\ initRefreshes = 0
  /\ handleWrites = 0
  /\ last = Handler("none", "", FALSE, << >>)
  /\ streak = 0

\* The program while the explorer's fileItems stay what they are.
SyncNext ==
  \/ Onload
  \/ LayoutReady
  \/ RetryTimer
  \/ \E f \in Files, s \in HostSnapshots : MetadataChanged(f, s)
  \/ \E b \in BOOLEAN : HostOpenPane(b)
  \/ \E v \in EditorSeparators : SetSeparator(v)
  \/ \E k \in EditorKeys : SetKey(1, k)

SyncSpec == SyncInit /\ [][SyncNext]_vars

(***************************************************************************)
(* Properties                                                              *)
(***************************************************************************)
Acquired == fileExplorer # 0

\* A "changed" callback has just run for file f.
ChangedFor(f) == last.kind = "changed" /\ last.file = f

\* C1: with the explorer acquired, a "changed" event for a file that is not
\* in fileItems raises no error and writes no attribute.
C1_UntrackedIsNoOp ==
  \A f \in Files :
    (Acquired /\ ChangedFor(f) /\ f \notin fileItems) => (~last.threw /\ last.log = << >>)

\* C2 as stated: on a settings change saveData is issued before any
\* attribute is written.
C2_PersistBeforeRefresh ==
  last.kind = "settings" =>
    /\ \E i \in 1..Len(last.log) : last.log[i] = SaveDataOp
    /\ \A i, j \in 1..Len(last.log) :
         (last.log[i] = SaveDataOp /\ last.log[j].op = "setAttribute") => i < j

\* C2 amended: on a settings change every attribute write of the refresh
\* comes first and saveData is issued once, after them.
C2_RefreshBeforePersist ==
  last.kind = "settings" =>
    /\ Len(last.log) > 0
    /\ last.log[Len(last.log)] = SaveDataOp
    /\ \A i \in 1..(Len(last.log) - 1) : last.log[i].op = "setAttribute"

C2_Witness == last.kind = "settings" /\ Len(last.log) > 1

\* C3: every rejected acquisition schedules exactly one retry, init's
\* callback refreshes the explorer once, on the acquisition that succeeds,
\* and the explorer is acquired in the end.
C3_AcquisitionRetry ==
  /\ [](/\ scheduled = failures
        /\ timers <= 1
        /\ initRefreshes = IF Acquired THEN 1 ELSE 0)
  /\ <>Acquired

C3_Witness == Acquired /\ failures > 1 /\ scheduled = failures /\ initRefreshes = 1

NonEmptyStr(str) == str # EmptyStr

\* C4: a single raw item yields the string form of a truthy value of its
\* key, whatever the type of the value, and the empty string otherwise.
C4_RawContribution ==
  (/\ Acquired
   /\ ChangedFor("f1")
   /\ frontmatter["f1"].present
   /\ Len(settings.list) = 1
   /\ settings.list[1].type = "raw") =>
    LET v == Lookup(frontmatter["f1"].map, settings.list[1].key)
    IN attr["f1"].text = IF Truthy(v) THEN StringOf(v) ELSE EmptyStr

\* C5: the label is the non-empty outputs of the items, in the order of
\* the list, with the separator between two spaces between neighbours.
C5_JoinOfNonEmptyOutputs ==
  (Acquired /\ ChangedFor("f1") /\ frontmatter["f1"].present) =>
    LET outs == [i \in 1..Len(settings.list) |->
                   StringOf(MapItem(settings.list[i], frontmatter["f1"].map))]
    IN attr["f1"].text
         = ConcatWith(SelectSeq(outs, NonEmptyStr), <<" ">> \o settings.separator \o <<" ">>)

\* C6: once the "changed" callback has run for a tracked file, and before
\* any other handler runs, the file's attribute is the label of the
\* frontmatter the event delivered, under the settings of that moment.
C6_LabelAfterChanged ==
  \A f \in Files :
    (Acquired /\ ChangedFor(f) /\ f \in fileItems) =>
      attr[f] = SetAttr(calcDisplayText(settings, frontmatter[f]))

C6_Witness ==
  \E f \in Files : Acquired /\ ChangedFor(f) /\ f \in fileItems /\ attr[f].text # EmptyStr

\* C7: this.fileExplorer is assigned once; once it is set no step changes
\* it and no retry or queued callback is left or made.
C7_HandleWrittenOnce ==
  [][/\ ~Acquired => handleWrites = 0
     /\ Acquired =>
          /\ fileExplorer' = fileExplorer
          /\ handleWrites' = 1
          /\ timers' = 0
          /\ readyQueue' = 0]_vars

C7_Witness == Acquired /\ failures > 0 /\ last.kind \in {"changed", "settings"} /\ Len(panes) > 1

\* C8: every step that changes the settings is a callback of the settings
\* tab, stores the changed settings and refreshes every file of the explorer.
C8_MutationRefreshesAndPersists ==
  [][settings' # settings =>
       /\ last'.kind = "settings"
       /\ stored' = settings'
       /\ \E i \in 1..Len(last'.log) : last'.log[i] = SaveDataOp
       /\ \A f \in fileItems' \cap Files :
            attr'[f] = SetAttr(calcDisplayText(settings', frontmatter'[f]))]_vars

C8_Witness ==
  /\ last.kind = "settings"
  /\ stored = settings
  /\ settings.separator # DEFAULT_SETTINGS.separator
  /\ Len(settings.list) > 1
  /\ \E i \in 1..Len(settings.list) : settings.list[i].format # Undefined
  /\ \E f \in fileItems \cap Files : attr[f].text # EmptyStr

\* C9: the "changed" callback for a file leaves the attribute of every
\* other path, the settings, the stored data and this.fileExplorer as they were.
C9_ChangedWritesOnlyItsFile ==
  [][\A f \in Files :
       (last'.kind = "changed" /\ last'.file = f) =>
         /\ \A p \in Paths \ {f} : attr'[p] = attr[p]
         /\ settings' = settings
         /\ stored' = stored
         /\ fileExplorer' = fileExplorer]_vars

C9_Witness ==
  /\ Acquired
  /\ ChangedFor("f1")
  /\ attr["f1"].set
  /\ "f2" \in fileItems
  /\ ~attr["f2"].set

\* C10: a second updateFileExplorer in a row, with the frontmatters, the
\* settings and fileItems as the first found them, changes no attribute.
C10_RefreshAllIdempotent == [][streak' = 2 => attr' = attr]_vars

C10_Witness == streak = 2 /\ \E f \in fileItems \cap Files : attr[f].text # EmptyStr


\* C11: as long as this.fileExplorer is undefined no handler writes an
\* attribute or throws, and a settings change still issues saveData with the
\* changed settings.
C11_NoWriteBeforeAcquisition ==
  [][fileExplorer' = 0 =>
       /\ attr' = attr
       /\ \A p \in Paths : ~attr'[p].set
       /\ ~last'.threw
       /\ last'.kind = "settings" => (stored' = settings' /\ last'.log = <<SaveDataOp>>)
       /\ last'.kind = "changed" => last'.log = << >>]_vars

C11_Witness ==
  /\ ~Acquired
  /\ ChangedFor("f1")
  /\ frontmatter["f1"].present
  /\ "f1" \in fileItems
  /\ stored = settings
  /\ settings.list[1].key = "a"
  /\ settings.separator = <<"|">>


\* A "changed" callback has just written the label of f1 from a frontmatter,
\* under settings of a single date item.
SingleDateItem ==
  /\ Acquired
  /\ ChangedFor("f1")
  /\ frontmatter["f1"].present
  /\ Len(settings.list) = 1
  /\ settings.list[1].type = "date"

Year2020 == <<"2", "0", "2", "0">>
March1st2020 == <<"2", "0", "2", "0", "-", "0", "3", "-", "0", "1">>

\* C12 as stated: a date item yields the empty string if its key is absent
\* and the formatter's rendering of every value that is there, falsy or not.
C12_DateOfEveryPresentValue ==
  SingleDateItem =>
    LET item == settings.list[1]
        m == frontmatter["f1"].map
    IN attr["f1"].text
         = IF item.key \in DOMAIN m THEN MomentFormat(m[item.key], item.format) ELSE EmptyStr

\* C12 amended: a date item yields the empty string if its key is absent or
\* its value is falsy ('', 0, false), and the formatter's rendering of every
\* other value: the year for 2020-03-01 under YYYY, the default pattern
\* without a format, the invalid-date text for what does not parse.
C12_DateOfTruthyValue ==
  SingleDateItem =>
    LET item == settings.list[1]
        v == Lookup(frontmatter["f1"].map, item.key)
        text == attr["f1"].text
    IN /\ ~Truthy(v) => text = EmptyStr
       /\ Truthy(v) => text = MomentFormat(v, item.format)
       /\ (v = StrV(March1st2020) /\ item.format = StrV(<<"Y", "Y", "Y", "Y">>)) => text = Year2020
       /\ (v = StrV(March1st2020) /\ item.format = Undefined) =>
            (Len(text) = Len(DefaultFormat) + 5 /\ SubSeq(text, 1, 10) = March1st2020)
       /\ v \in {StrV(<<"X">>), BoolV(TRUE)} => text = InvalidDateText
       /\ ~last.threw

C12_Witness ==
  /\ SingleDateItem
  /\ settings.list[1].format # Undefined
  /\ Lookup(frontmatter["f1"].map, settings.list[1].key) = StrV(March1st2020)
  /\ attr["f1"].text = Year2020


KnownType(item) == item.type \in FrontmatterType_TYPES

\* C13: an item of a type other than raw and date makes no handler throw,
\* yields the empty string on its own, and leaves the label what it is
\* without that item in the list.
C13_UnknownTypeIgnored ==
  (Acquired /\ ChangedFor("f1")) =>
    /\ ~last.threw
    /\ attr["f1"].text
         = calcDisplayText([settings EXCEPT !.list = SelectSeq(@, KnownType)], frontmatter["f1"])
    /\ (\A i \in 1..Len(settings.list) : ~KnownType(settings.list[i])) => attr["f1"].text = EmptyStr

C13_Witness ==
  /\ Acquired
  /\ ChangedFor("f1")
  /\ Len(settings.list) = 2
  /\ ~KnownType(settings.list[1])
  /\ settings.list[2] = [key |-> "b", type |-> "raw", format |-> Undefined]
  /\ frontmatter["f1"].present
  /\ Lookup(frontmatter["f1"].map, "a") = StrV(<<"X">>)
  /\ attr["f1"].text = <<"Y">>


\* C14: the label of an absent frontmatter is the empty string under every
\* configuration, and a refresh of a tracked file whose frontmatter is absent,
\* by the changed handler for it or by a settings callback for all files,
\* leaves the empty string in its attribute whatever was there before.
C14_AbsentSnapshotEmptiesLabel ==
  [][/\ calcDisplayText(settings', NoFrontmatter) = EmptyStr
     /\ \A f \in Files :
          (/\ fileExplorer' # 0
           /\ f \in fileItems'
           /\ ~frontmatter'[f].present
           /\ \/ last'.kind = "changed" /\ last'.file = f
              \/ last'.kind = "settings")
          => (attr'[f] = SetAttr(EmptyStr) /\ ~last'.threw)]_vars

C14_Witness ==
  /\ Acquired
  /\ ChangedFor("f1")
  /\ ~frontmatter["f1"].present
  /\ settings.list[1] = [key |-> "a", type |-> "raw", format |-> Undefined]
  /\ attr["f1"] = SetAttr(EmptyStr)
  /\ attr["f2"] = SetAttr(<<"X">>)


\* C15: an item whose key is the empty string contributes nothing, whatever
\* the frontmatter holds and whichever its type: a list of such items alone,
\* the default settings among them, gives the empty label.
C15_EmptyKeyContributesNothing ==
  (/\ Acquired
   /\ ChangedFor("f1")
   /\ \A i \in 1..Len(settings.list) : settings.list[i].key = "")
  => attr["f1"].text = EmptyStr


FirstExplorer(ps, i) ==
  /\ i \in 1..Len(ps)
  /\ ps[i].fileItems
  /\ \A j \in 1..(i - 1) : ~ps[j].fileItems

\* C16: getFileExplorerLeaf resolves with the first leaf, in the order of the
\* iteration, whose view has fileItems, later such leaves being ignored; it
\* rejects exactly when no leaf has one, and never does both. Every run of
\* init's callback assigns that first leaf, or counts one rejection and
\* leaves this.fileExplorer alone.
C16_FirstQualifyingLeaf ==
  [][/\ \A ps \in SeqsUpTo([fileItems : BOOLEAN], MaxPanes) :
          LET r == getFileExplorerLeaf(ps)
          IN /\ r.rejected <=> ~HasExplorer(ps)
             /\ r.rejected <=> r.resolved = 0
             /\ ~r.rejected => FirstExplorer(ps, r.resolved)
     /\ (failures' # failures \/ handleWrites' # handleWrites) =>
          /\ (handleWrites' = handleWrites + 1 /\ failures' = failures) <=> HasExplorer(panes)
          /\ (failures' = failures + 1 /\ handleWrites' = handleWrites) <=> ~HasExplorer(panes)
          /\ handleWrites' # handleWrites => FirstExplorer(panes, fileExplorer')
          /\ failures' # failures => fileExplorer' = fileExplorer]_vars

C16_Witness ==
  /\ last.kind \in {"onload", "layoutReady", "timer"}
  /\ handleWrites = 1
  /\ failures > 0
  /\ Len(panes) = 2
  /\ panes[1].fileItems
  /\ panes[2].fileItems
  /\ fileExplorer = 1


\* C17: while the explorer's fileItems stay the same, once the explorer is
\* acquired and no handler is running, the attribute of every file in
\* fileItems is the label of the current settings and of that file's current
\* frontmatter, the metadata cache having triggered "changed" for every
\* change; changes of frontmatter and of settings made before the
\* acquisition are in the labels too.
C17_LabelsInSync ==
  Acquired =>
    \A f \in fileItems \cap Files :
      attr[f] = SetAttr(calcDisplayText(settings, frontmatter[f]))

C17_Witness ==
  /\ Acquired
  /\ last.kind = "timer"
  /\ handleWrites = 1
  /\ fileItems = {"d", "f1", "f2"}
  /\ settings = [list |-> <<[key |-> "a", type |-> "raw", format |-> Undefined]>>, separator |-> <<"|">>]
  /\ frontmatter["f1"].present
  /\ ~frontmatter["f2"].present
  /\ attr["f1"] = SetAttr(<<"X">>)
  /\ attr["f2"] = SetAttr(EmptyStr)


\* C18: onload loads the settings, the stored values laid over the defaults,
\* before it starts init and before it registers the "changed" callback:
\* while the settings are not loaded no init callback is queued or run, no
\* timer is set, no callback of the plugin runs and no attribute is written,
\* however the host's events fall between the steps of the load.
C18_SettingsLoadedFirst ==
  [][/\ pc' = "loading" =>
          /\ settings' = Undefined
          /\ readyQueue' = 0
          /\ timers' = 0
          /\ scheduled' = 0
          /\ fileExplorer' = 0
          /\ handleWrites' = 0
          /\ failures' = 0
          /\ initRefreshes' = 0
          /\ \A p \in Paths : ~attr'[p].set
          /\ last'.kind \in {"none", "unheard", "host", "layoutReady"}
          /\ last'.log = << >>
     /\ pc' = "running" => DOMAIN settings' = {"list", "separator"}
     /\ (pc = "loading" /\ pc' = "running") =>
          /\ settings'.separator
               = IF stored # Null /\ "separator" \in DOMAIN stored THEN stored.separator ELSE <<"|">>
          /\ settings'.list
               = IF stored # Null /\ "list" \in DOMAIN stored THEN stored.list
                 ELSE <<[key |-> "", type |-> "raw", format |-> Undefined]>>
     /\ (last'.kind \in {"changed", "settings", "onload", "timer"} \/ last'.log # << >>) =>
          /\ pc = "running" \/ last'.kind = "onload"
          /\ settings' # Undefined]_vars

C18_Witness ==
  /\ Acquired
  /\ ChangedFor("f1")
  /\ stored = [separator |-> <<"-">>]
  /\ settings = [list |-> <<[key |-> "", type |-> "raw", format |-> Undefined]>>, separator |-> <<"-">>]
  /\ frontmatter["f1"].present
  /\ attr["f1"] = SetAttr(EmptyStr)
  /\ failures > 0


EmptyRawItem == [key |-> "", type |-> "raw", format |-> Undefined]

\* C19: under the callbacks of the settings tab the list never becomes
\* empty. The list gets shorter only by one item at a time, the item being
\* one after the first and the others keeping their order; it gets longer
\* only by one raw item of empty key at its end; the other callbacks leave
\* its length alone and change one item or the separator.
C19_ListNeverEmpty ==
  [][/\ Len(settings'.list) >= 1
     /\ Len(settings'.list) < Len(settings.list) =>
          /\ settings'.separator = settings.separator
          /\ Len(settings'.list) = Len(settings.list) - 1
          /\ settings'.list[1] = settings.list[1]
          /\ \E i \in 2..Len(settings.list) :
               /\ \A j \in 1..(i - 1) : settings'.list[j] = settings.list[j]
               /\ \A j \in i..Len(settings'.list) : settings'.list[j] = settings.list[j + 1]
     /\ Len(settings'.list) > Len(settings.list) =>
          /\ settings'.separator = settings.separator
          /\ settings'.list = Append(settings.list, EmptyRawItem)
     /\ (Len(settings'.list) = Len(settings.list) /\ settings' # settings) =>
          \/ settings'.list = settings.list
          \/ /\ settings'.separator = settings.separator
             /\ \E i \in 1..Len(settings.list) :
                  \A j \in 1..Len(settings.list) : j # i => settings'.list[j] = settings.list[j]]_vars

C19_Witness ==
  /\ last.kind = "settings"
  /\ stored = settings
  /\ Len(settings.list) = 2
  /\ settings.list[1].type = "date"
  /\ settings.list[1].key = "a"
  /\ settings.list[2] = EmptyRawItem


\* The number of setAttribute calls for path p in a handler's log.
WritesOf(log, p) == Cardinality({i \in DOMAIN log : log[i] = SetAttributeOp(p)})

\* The last handler ran updateFileExplorer with the explorer acquired.
RefreshedAll == streak > 0 /\ last.kind \in {"onload", "layoutReady", "timer", "settings"}

\* C20: updateFileExplorer writes the attribute of every entry of fileItems
\* that is a file exactly once and of no other path; the attribute of a
\* folder in fileItems is never written.
C20_RefreshAllWritesFilesOnce ==
  /\ \A p \in Folders : ~attr[p].set
  /\ RefreshedAll =>
       /\ ~last.threw
       /\ \A p \in Paths : WritesOf(last.log, p) = IF p \in fileItems \cap Files THEN 1 ELSE 0
       /\ \A f \in fileItems \cap Files : attr[f].set

C20_Witness ==
  /\ RefreshedAll
  /\ fileItems = {"d", "f1", "f2"}
  /\ last.log = <<SetAttributeOp("f1"), SetAttributeOp("f2"), SaveDataOp>>
  /\ attr["f1"].set
  /\ attr["f2"].set
  /\ ~attr["d"].set

====
